---------------------------- MODULE Spec2Model ----------------------------
(***************************************************************************)
(* Model of pkg/services/live/survey/survey.go: the receiving side of the  *)
(* cluster survey (handleSurvey and its two handlers) running on several   *)
(* nodes concurrently with leadership changes in the leader-election       *)
(* store, and the outbound caller CallPluginSubscribeStream.               *)
(***************************************************************************)
EXTENDS Integers, Sequences, FiniteSets, TLC

VARIABLES
    leaders,    \* leader-election store: org-scoped channel -> [ok, token]
    sv,         \* inbound surveys: survey id -> the handler's frame
    call,       \* the frame of one CallPluginSubscribeStream
    agg         \* the frame of one CallManagedStreams

vars == <<leaders, sv, call, agg>>

-----------------------------------------------------------------------------
(* Bounds of the model. *)

\* number of leadership tokens the store mints per channel
MaxEpoch == 2
\* length of the channel list in one node's answer to a broadcast survey
MaxList == 2

\* the inbound surveys of one behaviour: two, handled concurrently
Surveys == {1, 2}
Nodes == {"n1", "n2"}
Orgs == {1}
Channels == {"a"}
UserIDs == {0, 7}
\* leadership tokens are minted 1, 2, ...; 0 stands for the empty string
Tokens == 1..MaxEpoch

-----------------------------------------------------------------------------
(* Wire protocol. *)

managedStreamsCall == "managed_streams"
pluginSubscribeStream == "plugin_subscribe_stream"
Ops == {managedStreamsCall, pluginSubscribeStream, "unknown_op"}

\* A byte payload is nil, bytes that are not JSON, or a JSON object (a
\* function from field names to values).
NilData == [kind |-> "nil"]
BadData == [kind |-> "bad"]
Json(obj) == [kind |-> "json", obj |-> obj]

Field(obj, name, zero) == IF name \in DOMAIN obj THEN obj[name] ELSE zero

\* backend.SubscribeStreamStatus values and models.SubscribeReply values; a
\* reply whose raw Data bytes are not valid JSON cannot be encoded.
Statuses == {0, 1}
ZeroReply == "reply0"
RawBadReply == "replyRawBad"
Replies == {"reply1", RawBadReply}

Nil == "nil"

\* Names of managed channels are strings; a string is modelled as the
\* sequence of its characters, over the alphabet 1 < 2 < 3.  The reserved
\* prefix "plugin/testdata/" is the string <<1, 2>>.
TestdataPrefix == <<1, 2>>
ChannelNames == {<<1, 2, 3>>, <<1, 3>>, <<3>>}

\* json.Marshal of a PluginSubscribeStreamRequest (field tags of the struct)
MarshalSubscribeRequest(req) ==
    Json([org |-> req.OrgID, userId |-> req.UserID, channel |-> req.Channel,
          leaderNodeId |-> req.LeaderNodeID, leadershipId |-> req.LeadershipID])

\* json.Marshal of a NodeManagedChannelsRequest
MarshalManagedRequest(req) == Json([orgId |-> req.OrgID])

\* json.Unmarshal into a PluginSubscribeStreamRequest: absent fields keep
\* their zero value, unknown fields are ignored
UnmarshalSubscribeRequest(data) ==
    [OrgID |-> Field(data.obj, "org", 0),
     UserID |-> Field(data.obj, "userId", 0),
     Channel |-> Field(data.obj, "channel", ""),
     LeaderNodeID |-> Field(data.obj, "leaderNodeId", ""),
     LeadershipID |-> Field(data.obj, "leadershipId", 0)]

\* json.Unmarshal into a NodeManagedChannelsRequest
UnmarshalManagedRequest(data) == [OrgID |-> Field(data.obj, "orgId", 0)]

\* json.Unmarshal fails on bytes that are not a JSON value
Decodes(data) == data.kind = "json"

\* the handlers' results
SubscribeResponse(status, reply) ==
    [kind |-> "subscribe", Status |-> status, Reply |-> reply]

\* mutant of ManagedResponse: the first channel of the list is lost
ManagedResponseDropsFirst(channels) ==
    [kind |-> "managed",
     Channels |-> IF channels = << >> THEN channels ELSE Tail(channels)]

\* lines 106-108: the answer of handleManagedStreams
ManagedResponse(channels) == [kind |-> "managed", Channels |-> channels]
NoResponse == [kind |-> "none"]

\* json.Marshal of a handler's result fails when it holds raw bytes that
\* are not JSON
CanMarshal(resp) ==
    IF resp.kind = "subscribe" THEN resp.Reply # RawBadReply ELSE TRUE

\* json.Marshal of a handler's result; status has the omitempty tag
MarshalResponse(resp) ==
    IF resp.kind = "subscribe"
    THEN IF resp.Status = 0
         THEN Json([reply |-> resp.Reply])
         ELSE Json([status |-> resp.Status, reply |-> resp.Reply])
    ELSE Json([channels |-> resp.Channels])

\* the payloads a peer may send in a survey, well-formed or not
SubscribeRequests ==
    [OrgID : Orgs, UserID : UserIDs, Channel : Channels,
     LeaderNodeID : Nodes, LeadershipID : Tokens]
ManagedRequests == [OrgID : Orgs]
Payloads ==
    {BadData} \cup {MarshalSubscribeRequest(q) : q \in SubscribeRequests}
              \cup {MarshalManagedRequest(q) : q \in ManagedRequests}

-----------------------------------------------------------------------------
(* The leader-election store (leader.Manager), an external collaborator. *)

PrependOrgID(org, channel) == <<org, channel>>
Keys == {PrependOrgID(o, c) : o \in Orgs, c \in Channels}

\* what GetLeader reports for a key when it answers: (ok, leadershipID)
Reported(key) ==
    IF key \in DOMAIN leaders THEN leaders[key] ELSE [ok |-> FALSE, token |-> 0]

-----------------------------------------------------------------------------
(* handleSurvey: the frame of one inbound survey. *)

IdleFrame ==
    [pc |-> "idle", node |-> "", op |-> "", handler |-> "", req |-> NoResponse,
     cur |-> [ok |-> FALSE, token |-> 0], user |-> NoResponse,
     calls |-> << >>, tracked |-> NoResponse, resp |-> NoResponse,
     err |-> Nil, cb |-> << >>]

\* mutant of SurveyReply: the error text is sent to the peer
SurveyReplyLeaksError(resp, err) ==
    IF err # Nil THEN [Code |-> 1, Data |-> Json([error |-> err])]
    ELSE IF ~CanMarshal(resp) THEN [Code |-> 1, Data |-> NilData]
    ELSE [Code |-> 0, Data |-> MarshalResponse(resp)]

\* mutant of SurveyReply: a failed handler is answered with an empty success
SurveyReplySwallowsError(resp, err) ==
    IF err # Nil \/ ~CanMarshal(resp)
    THEN [Code |-> 0, Data |-> MarshalResponse(SubscribeResponse(0, ZeroReply))]
    ELSE [Code |-> 0, Data |-> MarshalResponse(resp)]

\* lines 81-93: the reply handed to the callback
SurveyReply(resp, err) ==
    IF err # Nil THEN [Code |-> 1, Data |-> NilData]
    ELSE IF ~CanMarshal(resp) THEN [Code |-> 1, Data |-> NilData]
    ELSE [Code |-> 0, Data |-> MarshalResponse(resp)]

\* the handler returned (resp, err): encode, call back, return
Finish(f, resp, err) ==
    [f EXCEPT !.pc = "done", !.resp = resp, !.err = err,
              !.cb = Append(@, SurveyReply(resp, err))]

Called(f, fn) == [f EXCEPT !.calls = Append(@, fn)]

\* mutant of NotAddressed: the self-check never fires
NotAddressedNever(req, nodeID) == req.LeaderNodeID # req.LeaderNodeID

\* line 131: the request names another node
NotAddressed(req, nodeID) == req.LeaderNodeID # nodeID

\* mutant of HasUser: the anonymous user is looked up too
HasUserOrAnonymous(req) == req.UserID >= 0

\* mutant of LeaderChanged: the found flag is not looked at
LeaderChangedTokenOnly(ok, currentLeadershipID, req) ==
    currentLeadershipID # req.LeadershipID

\* mutant of LeaderChanged: the tokens are not compared
LeaderChangedOkOnly(ok, currentLeadershipID, req) == ~ok

\* line 144: the fencing check
LeaderChanged(ok, currentLeadershipID, req) ==
    ~ok \/ currentLeadershipID # req.LeadershipID

\* line 151: an identity lookup is needed
HasUser(req) == req.UserID > 0

\* lines 124-135: decode and self-check of handlePluginSubscribeStream
SubscribeEntry(f, data) ==
    IF ~Decodes(data) THEN Finish(f, NoResponse, "decode error")
    ELSE LET req == UnmarshalSubscribeRequest(data) IN
         IF NotAddressed(req, f.node)
         THEN Finish([f EXCEPT !.req = req], SubscribeResponse(0, ZeroReply), Nil)
         ELSE [f EXCEPT !.req = req, !.pc = "getLeader"]

\* lines 96-101: decode of handleManagedStreams
ManagedEntry(f, data) ==
    IF ~Decodes(data) THEN Finish(f, NoResponse, "decode error")
    ELSE [f EXCEPT !.req = UnmarshalManagedRequest(data), !.pc = "tracker"]

\* mutant of Dispatcher: the default case falls through to a handler
DispatcherFallThrough(f, data) ==
    IF f.op = managedStreamsCall
    THEN ManagedEntry([f EXCEPT !.handler = "handleManagedStreams"], data)
    ELSE SubscribeEntry([f EXCEPT !.handler = "handlePluginSubscribeStream"], data)

\* lines 73-80: the dispatch on the operation name
Dispatcher(f, data) ==
    IF f.op = managedStreamsCall
    THEN ManagedEntry([f EXCEPT !.handler = "handleManagedStreams"], data)
    ELSE IF f.op = pluginSubscribeStream
    THEN SubscribeEntry([f EXCEPT !.handler = "handlePluginSubscribeStream"], data)
    ELSE Finish(f, NoResponse, "method not found")

\* a survey arrives at node n; surveys are numbered in order of arrival
handleSurvey(r) ==
    /\ sv[r].pc = "idle"
    /\ IF r = 1 THEN TRUE ELSE sv[r - 1].pc # "idle"
    /\ \E n \in Nodes, op \in Ops, data \in Payloads :
          sv' = [sv EXCEPT ![r] =
                    Dispatcher([IdleFrame EXCEPT !.node = n, !.op = op], data)]
    /\ UNCHANGED <<leaders, call, agg>>

\* lines 137-162: the leader query, the fencing check and the anonymous
\* identity; the query is bounded by a 250ms timeout, so it answers or fails
GetLeader(r) ==
    /\ sv[r].pc = "getLeader"
    /\ LET f == Called(sv[r], "GetLeader")
           key == PrependOrgID(f.req.OrgID, f.req.Channel)
       IN \/ sv' = [sv EXCEPT ![r] = Finish(f, NoResponse, "error checking leader")]
          \/ LET g == [f EXCEPT !.cur = Reported(key)] IN
             sv' = [sv EXCEPT ![r] =
                 IF LeaderChanged(g.cur.ok, g.cur.token, g.req)
                 THEN Finish(g, NoResponse, "leader changed")
                 ELSE IF HasUser(g.req)
                 THEN [g EXCEPT !.pc = "dispatch"]
                 ELSE [g EXCEPT !.pc = "getChannelHandler",
                                !.user = [UserId |-> 0, OrgId |-> g.req.OrgID]]]
    /\ UNCHANGED <<leaders, call, agg>>

\* lines 152-157: bus.Dispatch of GetSignedInUserQuery, without deadline
Dispatch(r) ==
    /\ sv[r].pc = "dispatch"
    /\ LET f == Called(sv[r], "Dispatch") IN
       \/ sv' = [sv EXCEPT ![r] = Finish(f, NoResponse, "error getting signed in user")]
       \/ sv' = [sv EXCEPT ![r] =
                 [f EXCEPT !.pc = "getChannelHandler",
                           !.user = [UserId |-> f.req.UserID, OrgId |-> f.req.OrgID]]]
       \/ sv' = [sv EXCEPT ![r] = [f EXCEPT !.pc = "hung"]]
    /\ UNCHANGED <<leaders, call, agg>>

\* lines 164-168: GetChannelHandler, without deadline
GetChannelHandler(r) ==
    /\ sv[r].pc = "getChannelHandler"
    /\ LET f == Called(sv[r], "GetChannelHandler") IN
       \/ sv' = [sv EXCEPT ![r] = Finish(f, NoResponse, "channel handler error")]
       \/ sv' = [sv EXCEPT ![r] = [f EXCEPT !.pc = "onSubscribe"]]
       \/ sv' = [sv EXCEPT ![r] = [f EXCEPT !.pc = "hung"]]
    /\ UNCHANGED <<leaders, call, agg>>

\* mutant of OnSubscribe: a failed OnSubscribe is tried once more
OnSubscribeRetries(r) ==
    /\ sv[r].pc = "onSubscribe"
    /\ LET f == Called(sv[r], "OnSubscribe") IN
       \/ sv' = [sv EXCEPT ![r] =
                 IF Len(sv[r].calls) < 4 THEN f
                 ELSE Finish(f, NoResponse, "subscribe error")]
       \/ \E status \in Statuses, reply \in Replies :
            sv' = [sv EXCEPT ![r] = Finish(f, SubscribeResponse(status, reply), Nil)]
       \/ sv' = [sv EXCEPT ![r] = [f EXCEPT !.pc = "hung"]]
    /\ UNCHANGED <<leaders, call, agg>>

\* lines 170-183: the channel handler's OnSubscribe, without deadline
OnSubscribe(r) ==
    /\ sv[r].pc = "onSubscribe"
    /\ LET f == Called(sv[r], "OnSubscribe") IN
       \/ sv' = [sv EXCEPT ![r] = Finish(f, NoResponse, "subscribe error")]
       \/ \E status \in Statuses, reply \in Replies :
            sv' = [sv EXCEPT ![r] = Finish(f, SubscribeResponse(status, reply), Nil)]
       \/ sv' = [sv EXCEPT ![r] = [f EXCEPT !.pc = "hung"]]
    /\ UNCHANGED <<leaders, call, agg>>

\* the lists the managed-stream tracker may hold for an organization
TrackedLists ==
    {<< >>,
     <<[Channel |-> <<3>>, MinuteRate |-> 2], [Channel |-> <<1, 3>>, MinuteRate |-> 1]>>}

\* lines 102-108: GetManagedChannels, without deadline
GetManagedChannels(r) ==
    /\ sv[r].pc = "tracker"
    /\ LET f == Called(sv[r], "GetManagedChannels") IN
       \/ sv' = [sv EXCEPT ![r] = Finish(f, NoResponse, "tracker error")]
       \/ \E channels \in TrackedLists :
            sv' = [sv EXCEPT ![r] =
                Finish([f EXCEPT !.tracked = [OrgID |-> f.req.OrgID,
                                              Channels |-> channels]],
                       ManagedResponse(channels), Nil)]
       \/ sv' = [sv EXCEPT ![r] = [f EXCEPT !.pc = "hung"]]
    /\ UNCHANGED <<leaders, call, agg>>

\* leadership of a channel changes: the store mints the next token
LeaderElected(key) ==
    /\ leaders[key].token < MaxEpoch
    /\ leaders' = [leaders EXCEPT ![key] = [ok |-> TRUE, token |-> @.token + 1]]
    /\ UNCHANGED <<sv, call, agg>>

\* the leader's lease expires: the store reports no leader
LeaderLost(key) ==
    /\ leaders[key].ok
    /\ leaders' = [leaders EXCEPT ![key] = [@ EXCEPT !.ok = FALSE]]
    /\ UNCHANGED <<sv, call, agg>>

-----------------------------------------------------------------------------
(* CallPluginSubscribeStream: the targeted leader call. *)

\* mutant of UnmarshalSubscribeResponse: the status field is not read
UnmarshalSubscribeResponseNoStatus(data) ==
    [Status |-> 0, Reply |-> Field(data.obj, "reply", ZeroReply)]

\* json.Unmarshal into a PluginSubscribeStreamResponse
UnmarshalSubscribeResponse(data) ==
    [Status |-> Field(data.obj, "status", 0),
     Reply |-> Field(data.obj, "reply", ZeroReply)]

\* what node.Survey may hand back: any reply from any subset of the nodes
Codes == {0, 1, 2}
ResponsePayloads ==
    {MarshalResponse(SubscribeResponse(st, rp)) :
        st \in Statuses, rp \in {ZeroReply, "reply1"}}
    \cup {Json([status |-> 1, reply |-> "reply1", extra |-> "x"]),
          Json([channels |-> << >>])}
WireReplies == [Code : Codes, Data : {NilData, BadData} \cup ResponsePayloads]
ReplyMaps == UNION {[D -> WireReplies] : D \in SUBSET Nodes}

IdleCall ==
    [pc |-> "idle", req |-> NoResponse, leaderNodeID |-> "", sent |-> 0,
     deadline |-> FALSE, resp |-> << >>, todo |-> {}, ret |-> NoResponse]

\* a return statement of CallPluginSubscribeStream
Return(c, reply, status, err) ==
    [c EXCEPT !.pc = "done",
              !.ret = [Reply |-> reply, Status |-> status, err |-> err]]

\* mutant of LoopBody: a reply of another node is not skipped
LoopBodyNoSkip(c, nodeID) ==
    LET result == c.resp[nodeID] IN
    IF result.Code # 0
    THEN Return(c, ZeroReply, 0, "unexpected survey code")
    ELSE IF ~Decodes(result.Data)
    THEN Return(c, ZeroReply, 0, "decode error")
    ELSE LET res == UnmarshalSubscribeResponse(result.Data) IN
         Return(c, res.Reply, res.Status, Nil)

\* mutant of LoopBody: a reply with a non-zero code is passed over
LoopBodyIgnoresCode(c, nodeID) ==
    LET result == c.resp[nodeID] IN
    IF result.Code # 0 \/ nodeID # c.leaderNodeID
    THEN [c EXCEPT !.todo = @ \ {nodeID}]
    ELSE IF ~Decodes(result.Data)
    THEN Return(c, ZeroReply, 0, "decode error")
    ELSE LET res == UnmarshalSubscribeResponse(result.Data) IN
         Return(c, res.Reply, res.Status, Nil)

\* lines 205-216: the body of the loop over the reply map, for one entry
LoopBody(c, nodeID) ==
    LET result == c.resp[nodeID] IN
    IF result.Code # 0
    THEN Return(c, ZeroReply, 0, "unexpected survey code")
    ELSE IF nodeID # c.leaderNodeID
    THEN [c EXCEPT !.todo = @ \ {nodeID}]
    ELSE IF ~Decodes(result.Data)
    THEN Return(c, ZeroReply, 0, "decode error")
    ELSE LET res == UnmarshalSubscribeResponse(result.Data) IN
         Return(c, res.Reply, res.Status, Nil)

\* lines 186-202: build the request and survey the leader node; the
\* transport fails or hands back a reply map
CallPluginSubscribeStream ==
    /\ call.pc = "idle"
    /\ \E req \in SubscribeRequests :
         LET c == [call EXCEPT !.req = MarshalSubscribeRequest(req),
                               !.leaderNodeID = req.LeaderNodeID,
                               !.sent = @ + 1]
         IN \/ call' = Return(c, ZeroReply, 0, "survey error")
            \/ \E resp \in ReplyMaps :
                 call' = [c EXCEPT !.pc = "loop", !.resp = resp,
                                   !.todo = DOMAIN resp]
    /\ UNCHANGED <<leaders, sv, agg>>

\* line 204: the range loop visits the entries of the map in any order
RangeResp ==
    /\ call.pc = "loop"
    /\ \E nodeID \in call.todo : call' = LoopBody(call, nodeID)
    /\ UNCHANGED <<leaders, sv, agg>>

\* line 218: the loop ended without a reply from the leader node
NotResponded ==
    /\ call.pc = "loop"
    /\ call.todo = {}
    /\ call' = Return(call, ZeroReply, 0, "leader node not responded")
    /\ UNCHANGED <<leaders, sv, agg>>

-----------------------------------------------------------------------------
(* The targeted leader call end to end: the caller, the transport and the
   handler of the addressed node. The transport delivers a targeted survey
   to the node whose ID is the target and keys the reply by the responder;
   it waits for the reply under the context it is given. *)

\* the frame of the survey issued by the first call
TheSurvey == 1

\* lines 186-199: build the request and issue the survey with the caller's
\* context, which may or may not carry a deadline; no timeout is added
SendSurvey ==
    /\ call.pc = "idle"
    /\ call.sent + 1 \in Surveys
    /\ \E req \in SubscribeRequests, deadline \in BOOLEAN :
         call' = [call EXCEPT !.pc = "survey",
                              !.req = MarshalSubscribeRequest(req),
                              !.leaderNodeID = req.LeaderNodeID,
                              !.sent = @ + 1,
                              !.deadline = deadline]
    /\ UNCHANGED <<leaders, sv, agg>>

\* lines 68-80 at the addressed node: the survey arrives there
DeliverSurvey ==
    /\ call.pc = "survey"
    /\ sv[call.sent].pc = "idle"
    /\ sv' = [sv EXCEPT ![call.sent] =
                Dispatcher([IdleFrame EXCEPT !.node = call.leaderNodeID,
                                             !.op = pluginSubscribeStream],
                           call.req)]
    /\ UNCHANGED <<leaders, call, agg>>

\* lines 199-202: node.Survey returns an error at once (the survey could
\* not be published)
SurveyFails ==
    /\ call.pc = "survey"
    /\ call' = Return(call, ZeroReply, 0, "survey error")
    /\ UNCHANGED <<leaders, sv, agg>>

\* lines 199-203: node.Survey returns: with the reply of the addressed
\* node once its handler called back, or, when the caller's context has a
\* deadline, with an error or with what was collected when it expired
SurveyReturns ==
    /\ call.pc = "survey"
    /\ \/ /\ sv[call.sent].pc = "done"
          /\ LET resp == [n \in {sv[call.sent].node} |-> sv[call.sent].cb[1]] IN
             call' = [call EXCEPT !.pc = "loop", !.resp = resp,
                                  !.todo = DOMAIN resp]
       \/ /\ call.deadline
          /\ \/ call' = Return(call, ZeroReply, 0, "survey error")
             \/ call' = [call EXCEPT !.pc = "loop"]
    /\ UNCHANGED <<leaders, sv, agg>>

\* lines 186-191: whatever invokes CallPluginSubscribeStream invokes it
\* again after it returned
CallAgain ==
    /\ call.pc = "done"
    /\ call' = [IdleCall EXCEPT !.sent = call.sent]
    /\ UNCHANGED <<leaders, sv, agg>>

-----------------------------------------------------------------------------
(* CallManagedStreams: the broadcast aggregation call. *)

\* the < of Go strings: lexicographic order
RECURSIVE Less(_, _)
Less(a, b) ==
    IF a = << >> THEN b # << >>
    ELSE IF b = << >> THEN FALSE
    ELSE IF a[1] # b[1] THEN a[1] < b[1]
    ELSE Less(Tail(a), Tail(b))

\* strings.HasPrefix
HasPrefix(str, prefix) ==
    Len(str) >= Len(prefix) /\ SubSeq(str, 1, Len(prefix)) = prefix

\* the answers of the nodes to a managed_streams survey
Rates == {1, 2}
ManagedChannels == [Channel : ChannelNames, MinuteRate : Rates]
ChannelLists == UNION {[1..n -> ManagedChannels] : n \in 0..MaxList}
AggReplies ==
    {[Code |-> 0, Data |-> MarshalResponse(ManagedResponse(l))] : l \in ChannelLists}
    \cup {[Code |-> 0, Data |-> BadData],
          [Code |-> 0, Data |-> Json([reply |-> ZeroReply])],
          [Code |-> 1, Data |-> NilData]}
AggReplyMaps == UNION {[D -> AggReplies] : D \in SUBSET Nodes}

\* json.Unmarshal into a NodeManagedChannelsResponse
UnmarshalManagedResponse(data) == [Channels |-> Field(data.obj, "channels", << >>)]

IdleAgg ==
    [pc |-> "idle", orgID |-> 0, sent |-> 0, resp |-> << >>, todo |-> {},
     order |-> << >>, channels |-> << >>, ret |-> NoResponse]

\* a return statement of CallManagedStreams
AggReturn(a, channels, err) ==
    [a EXCEPT !.pc = "done", !.ret = [Channels |-> channels, err |-> err]]

\* mutant of MergeChannel: the reserved prefix is not looked at
MergeChannelSumsAll(channels, ch) ==
    IF ch.Channel \in DOMAIN channels
    THEN [channels EXCEPT ![ch.Channel].MinuteRate = @ + ch.MinuteRate]
    ELSE [n \in DOMAIN channels \cup {ch.Channel} |->
             IF n = ch.Channel THEN ch ELSE channels[n]]

\* mutant of MergeChannel: a later occurrence replaces the entry
MergeChannelLastWins(channels, ch) ==
    [n \in DOMAIN channels \cup {ch.Channel} |->
        IF n = ch.Channel THEN ch ELSE channels[n]]

\* lines 247-256: one channel of an answer is merged into the map
MergeChannel(channels, ch) ==
    IF ch.Channel \in DOMAIN channels
    THEN IF HasPrefix(ch.Channel, TestdataPrefix)
         THEN channels
         ELSE [channels EXCEPT ![ch.Channel].MinuteRate = @ + ch.MinuteRate]
    ELSE [n \in DOMAIN channels \cup {ch.Channel} |->
             IF n = ch.Channel THEN ch ELSE channels[n]]

\* lines 246-257: the loop over the channels of one answer
RECURSIVE MergeList(_, _)
MergeList(channels, list) ==
    IF list = << >> THEN channels
    ELSE MergeList(MergeChannel(channels, Head(list)), Tail(list))

\* mutant of AggLoopBody: the answer of a failed node is skipped
AggLoopBodySkipsFailed(a, nodeID) ==
    LET result == a.resp[nodeID] IN
    IF result.Code # 0 \/ ~Decodes(result.Data)
    THEN [a EXCEPT !.todo = @ \ {nodeID}, !.order = Append(@, nodeID)]
    ELSE [a EXCEPT !.todo = @ \ {nodeID},
                   !.order = Append(@, nodeID),
                   !.channels = MergeList(@, UnmarshalManagedResponse(result.Data).Channels)]

\* lines 238-257: the body of the loop over the reply map, for one entry
AggLoopBody(a, nodeID) ==
    LET result == a.resp[nodeID] IN
    IF result.Code # 0
    THEN AggReturn(a, << >>, "unexpected survey code")
    ELSE IF ~Decodes(result.Data)
    THEN AggReturn(a, << >>, "decode error")
    ELSE [a EXCEPT !.todo = @ \ {nodeID},
                   !.order = Append(@, nodeID),
                   !.channels = MergeList(@, UnmarshalManagedResponse(result.Data).Channels)]

\* mutant of SortByChannel: the comparison is the wrong way round
RECURSIVE SortDescending(_)
SortDescending(channels) ==
    IF DOMAIN channels = {} THEN << >>
    ELSE LET first == CHOOSE n \in DOMAIN channels :
                        \A o \in DOMAIN channels \ {n} : Less(o, n)
         IN <<channels[first]>> \o
            SortDescending([n \in DOMAIN channels \ {first} |-> channels[n]])

\* lines 260-269: the values of the map as a list sorted by channel name
RECURSIVE SortByChannel(_)
SortByChannel(channels) ==
    IF DOMAIN channels = {} THEN << >>
    ELSE LET first == CHOOSE n \in DOMAIN channels :
                        \A o \in DOMAIN channels \ {n} : Less(n, o)
         IN <<channels[first]>> \o
            SortByChannel([n \in DOMAIN channels \ {first} |-> channels[n]])

\* lines 221-233: build the request and survey all nodes, bounded by a one
\* second timeout; the transport fails or hands back a reply map
CallManagedStreams ==
    /\ agg.pc = "idle"
    /\ \E orgID \in Orgs :
         LET a == [agg EXCEPT !.orgID = orgID, !.sent = @ + 1] IN
         \/ agg' = AggReturn(a, << >>, "survey error")
         \/ \E resp \in AggReplyMaps :
              agg' = [a EXCEPT !.pc = "loop", !.resp = resp, !.todo = DOMAIN resp]
    /\ UNCHANGED <<leaders, sv, call>>

\* line 237: the range loop visits the entries of the map in any order
RangeManaged ==
    /\ agg.pc = "loop"
    /\ \E nodeID \in agg.todo : agg' = AggLoopBody(agg, nodeID)
    /\ UNCHANGED <<leaders, sv, call>>

\* lines 260-269: all answers are merged
ManagedReturn ==
    /\ agg.pc = "loop"
    /\ agg.todo = {}
    /\ agg' = AggReturn(agg, SortByChannel(agg.channels), Nil)
    /\ UNCHANGED <<leaders, sv, call>>

-----------------------------------------------------------------------------
(* Specifications. *)

Init ==
    /\ leaders = [k \in Keys |-> [ok |-> FALSE, token |-> 0]]
    /\ sv = [r \in Surveys |-> IdleFrame]
    /\ call = IdleCall
    /\ agg = IdleAgg

Next ==
    \/ \E r \in Surveys : handleSurvey(r)
    \/ \E r \in Surveys : GetLeader(r)
    \/ \E r \in Surveys : Dispatch(r)
    \/ \E r \in Surveys : GetChannelHandler(r)
    \/ \E r \in Surveys : OnSubscribe(r)
    \/ \E r \in Surveys : GetManagedChannels(r)
    \/ \E key \in Keys : LeaderElected(key)
    \/ \E key \in Keys : LeaderLost(key)

\* the receiving side: surveys handled concurrently with leadership changes
Spec == Init /\ [][Next]_vars

\* a started handler keeps running: each of its steps is taken once enabled
Step(r) ==
    \/ GetLeader(r)
    \/ Dispatch(r)
    \/ GetChannelHandler(r)
    \/ OnSubscribe(r)
    \/ GetManagedChannels(r)

SpecFair == Spec /\ \A r \in Surveys : WF_vars(Step(r))

\* the calling side, over every reply map the transport may hand back
NextCall ==
    \/ CallPluginSubscribeStream
    \/ RangeResp
    \/ NotResponded

SpecCall == Init /\ [][NextCall]_vars

\* the broadcast aggregation, over every reply map and every order
NextManaged ==
    \/ CallManagedStreams
    \/ RangeManaged
    \/ ManagedReturn

SpecManaged == Init /\ [][NextManaged]_vars

\* the targeted call end to end, concurrently with leadership changes
NextE2E ==
    \/ SendSurvey
    \/ DeliverSurvey
    \/ SurveyFails
    \/ SurveyReturns
    \/ GetLeader(TheSurvey)
    \/ Dispatch(TheSurvey)
    \/ GetChannelHandler(TheSurvey)
    \/ OnSubscribe(TheSurvey)
    \/ RangeResp
    \/ NotResponded
    \/ \E key \in Keys : LeaderElected(key)
    \/ \E key \in Keys : LeaderLost(key)

SpecE2E == Init /\ [][NextE2E]_vars

\* the targeted call made twice by its invoker
NextTwice ==
    \/ SendSurvey
    \/ DeliverSurvey
    \/ SurveyFails
    \/ SurveyReturns
    \/ \E r \in Surveys : GetLeader(r)
    \/ \E r \in Surveys : Dispatch(r)
    \/ \E r \in Surveys : GetChannelHandler(r)
    \/ \E r \in Surveys : OnSubscribe(r)
    \/ RangeResp
    \/ NotResponded
    \/ CallAgain
    \/ \E key \in Keys : LeaderElected(key)
    \/ \E key \in Keys : LeaderLost(key)

SpecTwice == Init /\ [][NextTwice]_vars

\* every step of the caller, of the transport and of the handler is taken
\* once it stays enabled; a collaborator called without deadline may hang
SpecE2EFair ==
    /\ SpecE2E
    /\ WF_vars(DeliverSurvey)
    /\ WF_vars(Step(TheSurvey))
    /\ WF_vars(SurveyReturns)
    /\ WF_vars(RangeResp)
    /\ WF_vars(NotResponded)

-----------------------------------------------------------------------------
(* Vocabulary of the properties. *)

FailureReply == [Code |-> 1, Data |-> NilData]

\* the survey was decoded as a subscribe request
IsSubscribe(f) ==
    /\ f.handler = "handlePluginSubscribeStream"
    /\ f.pc # "idle"
    /\ f.err # "decode error"

\* ... and names the node that received it
Addressed(f) == IsSubscribe(f) /\ f.req.LeaderNodeID = f.node

KeyOf(f) == PrependOrgID(f.req.OrgID, f.req.Channel)

\* the leader query of the survey was answered (its answer is f.cur)
Answered(f) ==
    /\ Addressed(f)
    /\ f.pc # "getLeader"
    /\ f.err # "error checking leader"

Invoked(f, fn) == \E i \in 1..Len(f.calls) : f.calls[i] = fn

\* the survey reached OnSubscribe and got a status-0 reply
Succeeded(f) ==
    /\ f.pc = "done"
    /\ Invoked(f, "OnSubscribe")
    /\ Len(f.cb) = 1
    /\ f.cb[1].Code = 0

-----------------------------------------------------------------------------
(* Properties of the receiving side. *)

\* C1: a request addressed to this node whose token differs from the token
\* the store reports for its org-scoped channel at the leader query, or for
\* which the store reports no leader, ends with an error reply, and the only
\* collaborator it has called is the leader manager; a finished survey calls
\* nothing more.
C1_FencingRejects ==
    [][\A r \in Surveys :
        /\ ( /\ sv[r].pc = "getLeader"
             /\ sv'[r] # sv[r]
             /\ \/ ~Reported(KeyOf(sv[r])).ok
                \/ Reported(KeyOf(sv[r])).token # sv[r].req.LeadershipID )
           => /\ sv'[r].pc = "done"
              /\ sv'[r].err \in {"leader changed", "error checking leader"}
              /\ sv'[r].cb = <<FailureReply>>
              /\ sv'[r].calls = <<"GetLeader">>
        /\ sv[r].pc = "done" => sv'[r] = sv[r]
      ]_vars

C1_Witness ==
    \E r \in Surveys :
        /\ Answered(sv[r])
        /\ sv[r].cur.ok
        /\ sv[r].cur.token # sv[r].req.LeadershipID
        /\ sv[r].pc = "done"
        /\ sv[r].err = "leader changed"

\* C2: whenever OnSubscribe is invoked for a request, the store reports, at
\* that moment, a leader whose token is the token of the request.
C2_TokenCurrentAtOnSubscribe ==
    [][\A r \in Surveys :
        (sv[r].pc = "onSubscribe" /\ sv'[r] # sv[r])
           => /\ Reported(KeyOf(sv[r])).ok
              /\ Reported(KeyOf(sv[r])).token = sv[r].req.LeadershipID
      ]_vars

\* two finished subscribe requests for the same channel, an old-token one
\* and one with the token the store reports now, neither of which failed in
\* a collaborator
Race(old, new) ==
    /\ old # new
    /\ Addressed(sv[old]) /\ Addressed(sv[new])
    /\ sv[old].pc = "done" /\ sv[new].pc = "done"
    /\ KeyOf(sv[old]) = KeyOf(sv[new])
    /\ sv[old].req.LeadershipID # sv[new].req.LeadershipID
    /\ sv[old].err \in {Nil, "leader changed"}
    /\ sv[new].err \in {Nil, "leader changed"}
    /\ CanMarshal(sv[old].resp) /\ CanMarshal(sv[new].resp)

\* the token of the request is one the store had minted when the leader
\* query of the request was answered (tokens are minted in increasing order)
Minted(f) == Answered(f) /\ f.req.LeadershipID <= f.cur.token

\* C3 as stated: of two racing requests with the old and the new token,
\* exactly one succeeds, the one whose token the store reports now.
C3_ExactlyOneSucceeds ==
    \A old, new \in Surveys :
        ( /\ Race(old, new)
          /\ Minted(sv[old]) /\ Minted(sv[new])
          /\ Reported(KeyOf(sv[new])).ok
          /\ Reported(KeyOf(sv[new])).token = sv[new].req.LeadershipID )
        => (Succeeded(sv[new]) /\ ~Succeeded(sv[old]))

\* C3 as amended: a request succeeds only with the token the store reported
\* at its own leader query; of two racing requests with different tokens
\* whose leader queries got the same answer at most one succeeds, and
\* exactly one (the one carrying the reported token) when that answer is a
\* leader with one of the two tokens, whatever the order of the requests.
C3_SuccessFollowsReportedToken ==
    /\ \A r \in Surveys :
          Succeeded(sv[r]) =>
             /\ Answered(sv[r])
             /\ sv[r].cur.ok
             /\ sv[r].cur.token = sv[r].req.LeadershipID
    /\ \A a, b \in Surveys :
          ( /\ Race(a, b)
            /\ Answered(sv[a]) /\ Answered(sv[b])
            /\ sv[a].cur = sv[b].cur )
          => /\ ~(Succeeded(sv[a]) /\ Succeeded(sv[b]))
             /\ (sv[a].cur.ok /\ sv[a].cur.token = sv[a].req.LeadershipID)
                  => (Succeeded(sv[a]) /\ ~Succeeded(sv[b]))

C3_Witness ==
    \E a, b \in Surveys :
        /\ Race(a, b)
        /\ a > b
        /\ Answered(sv[a]) /\ Answered(sv[b])
        /\ sv[a].cur = sv[b].cur
        /\ Succeeded(sv[a])
        /\ sv[b].err = "leader changed"

\* C4: a subscribe request that names another node is answered at once with
\* the empty answer and code 0, and no collaborator is called; OnSubscribe
\* has only been invoked on the node the request names.
C4_NonLeaderEmptyAnswer ==
    \A r \in Surveys :
        /\ (IsSubscribe(sv[r]) /\ sv[r].req.LeaderNodeID # sv[r].node)
              => /\ sv[r].pc = "done"
                 /\ sv[r].calls = << >>
                 /\ sv[r].cb = <<[Code |-> 0,
                                  Data |-> Json([reply |-> ZeroReply])]>>
        /\ Invoked(sv[r], "OnSubscribe") => sv[r].req.LeaderNodeID = sv[r].node

C4_Witness ==
    \E a, b \in Surveys :
        /\ IsSubscribe(sv[a]) /\ sv[a].req.LeaderNodeID # sv[a].node
        /\ sv[a].pc = "done"
        /\ Invoked(sv[b], "OnSubscribe")

\* C5: every delivered survey is eventually answered, and the callback is
\* never invoked twice.
C5_CallbackExactlyOnce ==
    /\ \A r \in Surveys : (sv[r].pc # "idle") ~> (Len(sv[r].cb) = 1)
    /\ [](\A r \in Surveys : Len(sv[r].cb) <= 1)

\* C6 as stated: the reply code is 0 exactly when the handler returned no
\* error, and all failure replies are the same.
C6_CodeZeroIffHandlerSucceeded ==
    \A r \in Surveys :
        sv[r].pc = "done" =>
            /\ (sv[r].cb[1].Code = 0) <=> (sv[r].err = Nil)
            /\ sv[r].cb[1].Code # 0 => sv[r].cb[1] = FailureReply

\* C6 as amended: the reply code is 0 exactly when the handler returned no
\* error and its result could be encoded; every other survey, whatever
\* failed, gets the same reply: code 1 and no payload.
C6_CodeZeroIffHandledAndEncoded ==
    /\ \A r \in Surveys :
          sv[r].pc = "done" =>
            /\ Len(sv[r].cb) = 1
            /\ (sv[r].cb[1].Code = 0)
                  <=> (sv[r].err = Nil /\ CanMarshal(sv[r].resp))
            /\ sv[r].cb[1].Code # 0 => sv[r].cb[1] = FailureReply
    /\ \A a, b \in Surveys :
          ( /\ sv[a].pc = "done" /\ sv[b].pc = "done"
            /\ sv[a].cb[1].Code # 0 /\ sv[b].cb[1].Code # 0 )
          => sv[a].cb = sv[b].cb

C6_Witness ==
    \E a, b \in Surveys :
        /\ sv[a].pc = "done" /\ sv[b].pc = "done"
        /\ sv[a].err = "leader changed"
        /\ sv[b].err = Nil /\ ~CanMarshal(sv[b].resp)
        /\ sv[a].cb = sv[b].cb

\* C7: a survey whose operation is not one of the two defined ones is
\* answered with a non-zero code; no handler ran and no collaborator was
\* called.
C7_UnknownOpRejected ==
    \A r \in Surveys :
        (sv[r].pc # "idle" /\ sv[r].op \notin {managedStreamsCall, pluginSubscribeStream})
          => /\ sv[r].pc = "done"
             /\ Len(sv[r].cb) = 1
             /\ sv[r].cb[1].Code # 0
             /\ sv[r].handler = ""
             /\ sv[r].calls = << >>

C7_Witness ==
    \E r \in Surveys :
        /\ sv[r].op = "unknown_op"
        /\ sv[r].pc = "done"
        /\ sv[r].err = "method not found"

\* the survey was decoded as a managed-channels request
IsManaged(f) ==
    /\ f.handler = "handleManagedStreams"
    /\ f.pc # "idle"
    /\ f.err # "decode error"

\* C16: for a well-formed managed-channels request the reply is code 0 with
\* exactly the list the tracker returned for the organization of the
\* request, in the same order; when the tracker fails the reply is a
\* non-zero code without channels.
C16_ManagedListUnchanged ==
    \A r \in Surveys :
        (IsManaged(sv[r]) /\ sv[r].pc = "done") =>
            /\ sv[r].calls = <<"GetManagedChannels">>
            /\ IF sv[r].err = Nil
               THEN /\ sv[r].tracked.OrgID = sv[r].req.OrgID
                    /\ sv[r].cb = <<[Code |-> 0,
                           Data |-> Json([channels |-> sv[r].tracked.Channels])]>>
               ELSE /\ sv[r].err = "tracker error"
                    /\ sv[r].cb = <<FailureReply>>

C16_Witness ==
    \E r \in Surveys :
        /\ IsManaged(sv[r]) /\ sv[r].pc = "done" /\ sv[r].err = Nil
        /\ Len(sv[r].tracked.Channels) = 2
        /\ sv[r].req.OrgID \in Orgs

\* the collaborators a subscribe request calls, in the order of the code
StepsOf(req) ==
    IF req.UserID > 0
    THEN <<"GetLeader", "Dispatch", "GetChannelHandler", "OnSubscribe">>
    ELSE <<"GetLeader", "GetChannelHandler", "OnSubscribe">>

\* the collaborator whose failure gives the error
FailedStep(err) ==
    CASE err = "error checking leader" -> "GetLeader"
      [] err = "leader changed" -> "GetLeader"
      [] err = "error getting signed in user" -> "Dispatch"
      [] err = "channel handler error" -> "GetChannelHandler"
      [] err = "subscribe error" -> "OnSubscribe"

\* C17: the subscribe handler calls its collaborators in the fixed order
\* leader query, identity lookup (only for a user ID > 0), channel
\* resolution, OnSubscribe; OnSubscribe is invoked only after a leader query
\* that reported a leader with the token of the request, with the identity
\* resolved (synthesized from the organization without a lookup when the
\* user ID is not > 0); a failed step is the last collaborator called.
C17_StepsInOrder ==
    \A r \in Surveys :
        Addressed(sv[r]) =>
            /\ Len(sv[r].calls) <= Len(StepsOf(sv[r].req))
            /\ sv[r].calls = SubSeq(StepsOf(sv[r].req), 1, Len(sv[r].calls))
            /\ Invoked(sv[r], "OnSubscribe") =>
                  /\ sv[r].cur.ok
                  /\ sv[r].cur.token = sv[r].req.LeadershipID
                  /\ sv[r].user = [UserId |-> sv[r].req.UserID,
                                   OrgId |-> sv[r].req.OrgID]
            /\ (sv[r].pc = "done" /\ sv[r].err # Nil) =>
                  /\ sv[r].calls # << >>
                  /\ sv[r].calls[Len(sv[r].calls)] = FailedStep(sv[r].err)

C17_Witness ==
    \E a, b \in Surveys :
        /\ Addressed(sv[a]) /\ sv[a].req.UserID = 0
        /\ Succeeded(sv[a])
        /\ Addressed(sv[b]) /\ sv[b].req.UserID > 0
        /\ sv[b].err = "channel handler error"

-----------------------------------------------------------------------------
(* Properties of CallPluginSubscribeStream. *)

\* the call is over and the transport had handed back a reply map
Returned == call.pc = "done" /\ call.ret.err # "survey error"

SomeNonZero == \E n \in DOMAIN call.resp : call.resp[n].Code # 0

\* C8: a reply with a non-zero code from any node makes the call fail.
C8_AnyNonZeroFails ==
    (Returned /\ SomeNonZero) => call.ret.err # Nil

\* C9 as stated: no reply from the addressed leader node gives the "leader
\* node not responded" error with an empty reply and status 0.
C9_NoLeaderReplyNotResponded ==
    (Returned /\ call.leaderNodeID \notin DOMAIN call.resp)
      => call.ret = [Reply |-> ZeroReply, Status |-> 0,
                     err |-> "leader node not responded"]

\* C9 as amended: with no reply from the addressed leader node the call
\* returns an empty reply and status 0, with the "leader node not responded"
\* error when every reply has code 0 (or there is none) and with the
\* "unexpected survey code" error when some reply has a non-zero code.
C9_NoLeaderReplyFails ==
    (Returned /\ call.leaderNodeID \notin DOMAIN call.resp)
      => call.ret = [Reply |-> ZeroReply, Status |-> 0,
                     err |-> IF SomeNonZero THEN "unexpected survey code"
                             ELSE "leader node not responded"]

C9_Witness ==
    /\ Returned
    /\ call.resp # << >>
    /\ call.leaderNodeID \notin DOMAIN call.resp
    /\ ~SomeNonZero
    /\ call.ret.err = "leader node not responded"

\* C10: when the only reply is the leader node's, with code 0 and a payload
\* that decodes, the call returns the reply and the status the payload
\* carries (the zero value for a field it leaves out) and no error.
C10_LeaderReplyReturned ==
    ( /\ Returned
      /\ DOMAIN call.resp = {call.leaderNodeID}
      /\ call.resp[call.leaderNodeID].Code = 0
      /\ Decodes(call.resp[call.leaderNodeID].Data) )
    => LET data == call.resp[call.leaderNodeID].Data IN
       /\ call.ret.err = Nil
       /\ call.ret.Status = Field(data.obj, "status", 0)
       /\ call.ret.Reply = Field(data.obj, "reply", ZeroReply)
       /\ \A st \in Statuses, rp \in {ZeroReply, "reply1"} :
             data = MarshalResponse(SubscribeResponse(st, rp))
               => (call.ret.Reply = rp /\ call.ret.Status = st)

C10_Witness ==
    /\ Returned
    /\ DOMAIN call.resp = {call.leaderNodeID}
    /\ call.resp[call.leaderNodeID] =
          [Code |-> 0, Data |-> Json([status |-> 1, reply |-> "reply1"])]
    /\ call.ret = [Reply |-> "reply1", Status |-> 1, err |-> Nil]

-----------------------------------------------------------------------------
(* Properties of CallManagedStreams. *)

\* the call is over and the transport had handed back a reply map
ManagedReturned == agg.pc = "done" /\ agg.ret.err # "survey error"

AllAnswersGood ==
    \A n \in DOMAIN agg.resp :
        agg.resp[n].Code = 0 /\ Decodes(agg.resp[n].Data)

\* the channels of the answers, in the order in which the nodes are visited
RECURSIVE Occurrences(_, _)
Occurrences(resp, order) ==
    IF order = << >> THEN << >>
    ELSE UnmarshalManagedResponse(resp[Head(order)].Data).Channels
            \o Occurrences(resp, Tail(order))

RECURSIVE SumOf(_, _)
SumOf(occ, name) ==
    IF occ = << >> THEN 0
    ELSE (IF Head(occ).Channel = name THEN Head(occ).MinuteRate ELSE 0)
            + SumOf(Tail(occ), name)

FirstOf(occ, name) ==
    occ[CHOOSE i \in 1..Len(occ) :
            /\ occ[i].Channel = name
            /\ \A j \in 1..(i - 1) : occ[j].Channel # name]

NamesOf(list) == {list[i].Channel : i \in 1..Len(list)}

\* C12: one reply with a non-zero code makes the call fail without any
\* channel, however many other nodes answered and in whatever order the
\* replies are visited.
C12_AnyFailedNodeFailsAll ==
    (ManagedReturned /\ \E n \in DOMAIN agg.resp : agg.resp[n].Code # 0)
      => (agg.ret.err # Nil /\ agg.ret.Channels = << >>)

C12_Witness ==
    /\ ManagedReturned
    /\ agg.order # << >>
    /\ agg.channels # << >>
    /\ agg.ret.err = "unexpected survey code"

\* C13: when every reply has code 0 (and decodes), the result holds exactly
\* the channel names of the replies, each once; the rate of a name outside
\* the reserved prefix is the sum over all its occurrences, the rate of a
\* name under the prefix is the rate of its first visited occurrence.
C13_MergedRates ==
    (ManagedReturned /\ AllAnswersGood) =>
        LET occ == Occurrences(agg.resp, agg.order)
            res == agg.ret.Channels
        IN /\ agg.ret.err = Nil
           /\ Len(agg.order) = Cardinality(DOMAIN agg.resp)
           /\ NamesOf(res) = NamesOf(occ)
           /\ Len(res) = Cardinality(NamesOf(occ))
           /\ \A i \in 1..Len(res) :
                 res[i].MinuteRate =
                    IF HasPrefix(res[i].Channel, TestdataPrefix)
                    THEN FirstOf(occ, res[i].Channel).MinuteRate
                    ELSE SumOf(occ, res[i].Channel)

C13_Witness ==
    /\ ManagedReturned /\ AllAnswersGood
    /\ Len(agg.order) = 2
    /\ \E i, j \in 1..Len(agg.ret.Channels) :
          /\ agg.ret.Channels[i] = [Channel |-> <<1, 2, 3>>, MinuteRate |-> 1]
          /\ SumOf(Occurrences(agg.resp, agg.order), <<1, 2, 3>>) = 3
          /\ agg.ret.Channels[j] = [Channel |-> <<3>>, MinuteRate |-> 3]

\* C14: a successful result is sorted in strictly increasing lexicographic
\* order of channel name.
C14_SortedByName ==
    (agg.pc = "done" /\ agg.ret.err = Nil) =>
        \A i \in 1..(Len(agg.ret.Channels) - 1) :
            Less(agg.ret.Channels[i].Channel, agg.ret.Channels[i + 1].Channel)

C14_Witness ==
    /\ agg.pc = "done" /\ agg.ret.err = Nil
    /\ Len(agg.ret.Channels) = 3
    /\ UnmarshalManagedResponse(agg.resp[agg.order[1]].Data).Channels[1].Channel = <<3>>

\* the orders in which the entries of a map may be visited
Orders(S) ==
    {o \in [1..Cardinality(S) -> S] : \A i, j \in DOMAIN o : o[i] = o[j] => i = j}

\* the result of the loop of CallManagedStreams when it visits the rest of
\* the entries in the given order
RECURSIVE RunManaged(_, _)
RunManaged(a, order) ==
    IF a.pc = "done" THEN a.ret
    ELSE IF order = << >> THEN AggReturn(a, SortByChannel(a.channels), Nil).ret
    ELSE RunManaged(AggLoopBody(a, Head(order)), Tail(order))

Restarted ==
    [agg EXCEPT !.pc = "loop", !.todo = DOMAIN agg.resp, !.order = << >>,
                !.channels = << >>, !.ret = NoResponse]

\* C19 as stated: every order of visiting the replies gives the result of
\* this run: the same failure or the same list of names and rates.
C19_OrderIndependent ==
    ManagedReturned =>
        \A o \in Orders(DOMAIN agg.resp) :
            LET other == RunManaged(Restarted, o) IN
            /\ (other.err = Nil) <=> (agg.ret.err = Nil)
            /\ other.Channels = agg.ret.Channels

\* all occurrences of the name in the replies report the same rate
SameRateEverywhere(name) ==
    \A n, m \in DOMAIN agg.resp :
        LET ln == UnmarshalManagedResponse(agg.resp[n].Data).Channels
            lm == UnmarshalManagedResponse(agg.resp[m].Data).Channels
        IN \A i \in 1..Len(ln), j \in 1..Len(lm) :
              (ln[i].Channel = name /\ lm[j].Channel = name)
                 => ln[i].MinuteRate = lm[j].MinuteRate

\* C19 as amended: every order of visiting the replies gives the same
\* outcome (failure without channels, or success), the same list of channel
\* names, and the same rate for every channel outside the reserved prefix;
\* for a channel under the prefix the rate is that of the occurrence
\* visited first, so it is the same only when its occurrences agree.
C19_OrderIndependentButTestdata ==
    ManagedReturned =>
        \A o \in Orders(DOMAIN agg.resp) :
            LET other == RunManaged(Restarted, o)
                res == agg.ret.Channels
            IN /\ (other.err = Nil) <=> (agg.ret.err = Nil)
               /\ Len(other.Channels) = Len(res)
               /\ \A i \in 1..Len(res) :
                     /\ other.Channels[i].Channel = res[i].Channel
                     /\ ( \/ ~HasPrefix(res[i].Channel, TestdataPrefix)
                          \/ SameRateEverywhere(res[i].Channel) )
                        => other.Channels[i] = res[i]
                     /\ agg.ret.err = Nil /\ HasPrefix(res[i].Channel, TestdataPrefix)
                        => other.Channels[i].MinuteRate =
                              FirstOf(Occurrences(agg.resp, o), res[i].Channel).MinuteRate

C19_Witness ==
    /\ ManagedReturned /\ AllAnswersGood
    /\ Len(agg.order) = 2
    /\ \E o \in Orders(DOMAIN agg.resp) :
          /\ o # agg.order
          /\ Occurrences(agg.resp, o) # Occurrences(agg.resp, agg.order)
          /\ RunManaged(Restarted, o).Channels = agg.ret.Channels
    /\ \E i \in 1..Len(agg.ret.Channels) : agg.ret.Channels[i].MinuteRate = 3

-----------------------------------------------------------------------------
(* Properties of the targeted leader call, end to end. *)

\* the reply of the addressed node's handler was handed to the caller's loop
ReplyDelivered ==
    /\ call.pc = "done"
    /\ sv[TheSurvey].pc = "done"
    /\ call.leaderNodeID \in DOMAIN call.resp
    /\ call.resp[call.leaderNodeID] = sv[TheSurvey].cb[1]

\* C11: when the handler of the addressed node fails the subscribe
\* operation, for whatever reason, and its reply reaches the caller, the
\* call fails with "unexpected survey code", never with "leader node not
\* responded".
C11_LeaderFailureIsNotSilence ==
    (ReplyDelivered /\ sv[TheSurvey].err # Nil)
       => call.ret.err = "unexpected survey code"

C11_Witness ==
    /\ ReplyDelivered
    /\ sv[TheSurvey].err = "leader changed"
    /\ sv[TheSurvey].cur.ok
    /\ call.ret.err = "unexpected survey code"

\* the position of a collaborator call in the call sequence of a frame
Position(f, fn) == CHOOSE i \in 1..Len(f.calls) : f.calls[i] = fn

\* C20: whenever the call returns without error, the addressed node
\* invoked OnSubscribe for that very request before, after a leader query
\* that reported a leader whose token is the token of the request; the
\* handler was neither rejected nor skipped.
C20_SuccessMeansSubscribed ==
    (call.pc = "done" /\ call.ret.err = Nil) =>
        LET f == sv[TheSurvey] IN
        /\ f.pc = "done"
        /\ f.node = call.leaderNodeID
        /\ MarshalSubscribeRequest(f.req) = call.req
        /\ f.err = Nil
        /\ Invoked(f, "GetLeader") /\ Invoked(f, "OnSubscribe")
        /\ Position(f, "GetLeader") < Position(f, "OnSubscribe")
        /\ f.cur.ok
        /\ f.cur.token = f.req.LeadershipID
        /\ f.resp.kind = "subscribe"
        /\ call.ret.Reply = f.resp.Reply /\ call.ret.Status = f.resp.Status

C20_Witness ==
    /\ call.pc = "done" /\ call.ret.err = Nil
    /\ call.ret.Status = 1
    /\ Invoked(sv[TheSurvey], "OnSubscribe")
    /\ Reported(KeyOf(sv[TheSurvey])).token # sv[TheSurvey].req.LeadershipID

-----------------------------------------------------------------------------
(* No retry and no de-duplication. *)

RECURSIVE Count(_, _)
Count(calls, fn) ==
    IF calls = << >> THEN 0
    ELSE (IF Head(calls) = fn THEN 1 ELSE 0) + Count(Tail(calls), fn)

\* the step starts an outbound call
CallStarts == call.pc = "idle" /\ call'.pc # "idle"

\* the step is the answer of the leader query of survey r, and the answer
\* is a leader whose token is the token of the request
StillValid(r) ==
    /\ sv[r].pc = "getLeader" /\ sv'[r].pc # "getLeader"
    /\ sv'[r].err # "error checking leader"
    /\ sv'[r].cur.ok
    /\ sv'[r].cur.token = sv[r].req.LeadershipID

\* the step is the return of OnSubscribe with a reply and a status
HandlerReplied(r) ==
    /\ sv[r].pc = "onSubscribe" /\ sv'[r].pc = "done"
    /\ sv'[r].err = Nil

\* C18: no retry and no de-duplication. A call issues one survey when it
\* starts and none afterwards, whatever the survey returns; a survey is
\* delivered to one frame; OnSubscribe is invoked for a request only if it
\* was not invoked for it before; a request whose leader query reports its
\* own token is accepted whether or not an identical request was handled
\* before; and the reply sent back is the handler's reply and status.
C18_NoRetryNoDedup ==
    [][ /\ call'.sent = IF CallStarts THEN call.sent + 1 ELSE call.sent
        /\ Cardinality({r \in Surveys : sv'[r].pc # "idle"}) <= call'.sent
        /\ \A r \in Surveys :
              /\ Count(sv'[r].calls, "OnSubscribe") <= 1
              /\ Len(sv'[r].cb) <= 1
              /\ StillValid(r) => sv'[r].pc \in {"dispatch", "getChannelHandler"}
              /\ HandlerReplied(r) =>
                    /\ Count(sv'[r].calls, "OnSubscribe") = 1
                    /\ CanMarshal(sv'[r].resp) =>
                          /\ sv'[r].cb[1].Code = 0
                          /\ UnmarshalSubscribeResponse(sv'[r].cb[1].Data)
                                = [Status |-> sv'[r].resp.Status,
                                   Reply |-> sv'[r].resp.Reply]
      ]_vars

\* two identical requests, the token unchanged between them, both accepted
C18_Witness ==
    /\ call.sent = 2 /\ call.pc = "done" /\ call.ret.err = Nil
    /\ sv[1].req = sv[2].req /\ sv[1].node = sv[2].node
    /\ Succeeded(sv[1]) /\ Succeeded(sv[2])
    /\ sv[1].cur = sv[2].cur
    /\ Reported(KeyOf(sv[1])) = sv[1].cur
    /\ Count(sv[1].calls, "OnSubscribe") + Count(sv[2].calls, "OnSubscribe") = 2
    /\ call.ret.Reply = sv[2].resp.Reply /\ call.ret.Status = 1

=============================================================================
